---- MODULE Spec2Model ----
(***************************************************************************)
(* State-machine model of daq-acquire (src/src/daq-acquire.c): start-up    *)
(* of the Comedi device, the two-round command negotiation, the            *)
(* memory-mapped ring-buffer polling loop of main() and the per-sample     *)
(* aggregator print_datum().                                               *)
(*                                                                         *)
(* Abstractions: times are exact integers in nanoseconds (the long double  *)
(* accumulator t holds period/1e9 seconds; floating-point rounding is not  *)
(* modelled); calibration polynomials are linear with integer              *)
(* coefficients; a printed channel value is the pair of integers that      *)
(* digits "%8.6f" shows.  The Comedi driver is the environment: it     *)
(* writes whole samples into the ring buffer and answers every library     *)
(* call nondeterministically.                                              *)
(***************************************************************************)
EXTENDS Integers, Sequences, FiniteSets, TLC

\* ------------------------------------------------------------------ bounds
MaxChan == 2
MaxScan == 2
MaxIntegrate == 2
MaxSamples == 4
MaxArgs == 2

\* ------------------------------------------------------- program constants
SizeofSampl == 2
SizeofLsampl == 4
NChans == 256

\* ------------------------------------------------------------ input sets
\* the k-th sample (from 0) the hardware produces is 1 or 2k+1: the runs
\* include 1,3,5,7 and runs of equal samples
RawAt(k) == {1, 2 * k + 1}
Garbage == {0, 1, 3}
BufferSizes == {8}
Freqs == {1000}
HwPeriods == {1000000, 1000200}
ClockValues == {1000000000}
Identity == [origin |-> 0, c0 |-> 0, c1 |-> 1]
\* the calibration polynomial the board holds for each channel
Calibration(ch) == IF ch = 0 THEN Identity ELSE [origin |-> 1, c0 |-> 2, c1 |-> 3]

VARIABLES
  pc,               \* position of main(): parse, open, ..., poll, sleep, decode, done
  exitStatus,       \* process exit status, -1 while running
  cause,            \* which exit or break ended the process
  options,          \* struct parsed_options (fields the core uses) and the -h flag
  parse,            \* parse_options: options left to read, its local n, highest index written
  subdev_flags,     \* the SDF_LSAMPL bit of the subdevice flags
  bytes_per_sample,
  converter,
  size,
  cmd,              \* comedi_cmd fields the program sets or reads
  prepRet,          \* return value of prepare_cmd_lib (ignored by main)
  tests,            \* return values of the comedi_command_test calls so far
  real_period,
  init,             \* clock_init() result, ns
  armCalls,         \* number of comedi_command calls
  polled,           \* comedi_get_buffer_contents was called at least once
  last,             \* the last call the loop made: none, poll, usleep or mark
  front, back, n, i,
  col, isamples, buf, t,      \* statics of print_datum
  out,              \* rows printed so far
  fed,              \* raw samples passed to print_datum so far
  map,              \* the mmap'ed ring buffer, byte per offset
  avail,            \* driver side: bytes written and not yet marked read
  hwlog,            \* raw samples the hardware has written, in order
  lapped,           \* the hardware overwrote bytes that were not yet marked read
  acked             \* total bytes passed to successful comedi_mark_buffer_read

vars == <<pc, exitStatus, cause, options, parse, subdev_flags, bytes_per_sample,
          converter, size, cmd, prepRet, tests, real_period, init, armCalls,
          polled, last, front, back, n, i, col, isamples, buf, t, out, fed, map,
          avail, hwlog, lapped, acked>>

startv == <<subdev_flags, bytes_per_sample, converter, size, cmd, prepRet,
            tests, real_period, init, armCalls>>
loopv == <<polled, last, front, back, n, i>>
aggv == <<col, isamples, buf, t, out, fed>>
hwv == <<map, avail, hwlog, lapped, acked>>

ZeroCmd == [scan_begin_arg |-> 0, stop_src |-> "0", stop_arg |-> 0, chanlist_len |-> 0]

\* the channels of the subdevice that the channel lists name
Channels == {0, 1}

\* the channel lists of the runs: nc channels taken in turn from some channel
ChannelLists(nc) == {[k \in 0..(nc - 1) |-> (s + k) % 2] : s \in Channels}

\* parse_options has consumed the command line
ParseDone == [args |-> <<>>, n |-> 0, maxw |-> -1]

\* everything but options and parse, before main's first call
InitRest ==
  /\ pc = "parse"
  /\ exitStatus = -1
  /\ cause = "none"
  /\ subdev_flags = [lsampl |-> FALSE]
  /\ bytes_per_sample = 0
  /\ converter = Identity
  /\ size = 0
  /\ cmd = ZeroCmd
  /\ prepRet = 0
  /\ tests = <<>>
  /\ real_period = 0
  /\ init = 0
  /\ armCalls = 0
  /\ polled = FALSE
  /\ last = "none"
  /\ front = 0 /\ back = 0 /\ n = 0 /\ i = 0
  /\ col = 0 /\ isamples = 0 /\ t = 0
  /\ buf = [c \in 0..(MaxChan - 1) |-> 0]
  /\ out = <<>>
  /\ fed = <<>>
  /\ map = <<>>
  /\ avail = 0
  /\ hwlog = <<>>
  /\ lapped = FALSE
  /\ acked = 0

Init ==
  /\ options \in UNION {[n_chan : {nc}, channel : ChannelLists(nc),
                          n_scan : 0..MaxScan, integrate : 1..MaxIntegrate,
                          fulltime : BOOLEAN, freq : Freqs, h : BOOLEAN] :
                         nc \in 1..MaxChan}
  /\ parse = ParseDone
  /\ InitRest

\* exit(status) / return status from main
Exit(status, why) ==
  /\ pc' = "done"
  /\ exitStatus' = status
  /\ cause' = why

Goto(label) ==
  /\ pc' = label
  /\ UNCHANGED <<exitStatus, cause>>

\* ------------------------------------------------------------ parse_options
\* struct parsed_options as initialised at lines 35-47
Defaults ==
  [n_chan |-> 1, channel |-> [k \in {0} |-> 0], n_scan |-> 0, integrate |-> 1,
   fulltime |-> FALSE, freq |-> 10000, h |-> FALSE]

\* the options of a command line: -c with k comma-separated entries, -n and
\* -I with a value, -T and -h
ArgSet ==
  {[opt |-> "c", v |-> k] : k \in {1, 2, NChans - 1, NChans, NChans + 1}}
    \cup {[opt |-> o, v |-> x] : o \in {"n", "I"}, x \in {-1, 0, 2}}
    \cup {[opt |-> o, v |-> 0] : o \in {"T", "h"}}

\* the command lines of at most MaxArgs options
ArgLists == UNION {[1..len -> ArgSet] : len \in 0..MaxArgs}

ParseInit ==
  /\ options = Defaults
  /\ parse \in [args : ArgLists, n : {0}, maxw : {-1}]
  /\ InitRest

\* lines 299-307: the k entries of a -c list are stored at channel[n],
\* channel[n + 1], ...; a store past channel[N_CHANS - 1] does not land in
\* the array (what it overwrites is not modelled)
StoreChannels(ch, from, k) ==
  [idx \in DOMAIN ch \cup {j \in from..(from + k - 1) : j < NChans} |->
     IF idx >= from /\ idx < from + k THEN (idx - from) % 2 ELSE ch[idx]]

\* one iteration of the getopt loop, lines 282-326
ParseArg ==
  /\ pc = "parse"
  /\ parse.args # <<>>
  /\ LET a == Head(parse.args)
         rest == Tail(parse.args)
     IN
       CASE a.opt = "h" ->
              /\ options' = [options EXCEPT !.h = TRUE]
              /\ parse' = [parse EXCEPT !.args = rest]
         [] a.opt = "T" ->
              /\ options' = [options EXCEPT !.fulltime = TRUE]
              /\ parse' = [parse EXCEPT !.args = rest]
         [] a.opt = "n" ->
              /\ options' = [options EXCEPT !.n_scan = IF a.v < 0 THEN 0 ELSE a.v]
              /\ parse' = [parse EXCEPT !.args = rest]
         [] a.opt = "I" ->
              /\ options' = [options EXCEPT !.integrate = IF a.v <= 0 THEN 1 ELSE a.v]
              /\ parse' = [parse EXCEPT !.args = rest]
         [] a.opt = "c" ->
              /\ options' = [options EXCEPT
                               !.channel = StoreChannels(@, parse.n, a.v),
                               !.n_chan = parse.n + a.v]
              /\ parse' = [args |-> rest, n |-> parse.n + a.v,
                           maxw |-> IF parse.n + a.v - 1 > parse.maxw
                                    THEN parse.n + a.v - 1 ELSE parse.maxw]
  /\ UNCHANGED <<pc, exitStatus, cause, startv, loopv, aggv, hwv>>

\* ---------------------------------------------------------------- start-up
\* parse_options after the getopt loop, lines 327-331
ParseOptions ==
  /\ pc = "parse"
  /\ parse.args = <<>>
  /\ IF options.h THEN Exit(1, "help") ELSE Goto("open")
  /\ UNCHANGED <<options, parse, startv, loopv, aggv, hwv>>

OpenDevice ==
  /\ pc = "open"
  /\ \E ok \in BOOLEAN :
       IF ok THEN Goto("flags") ELSE Exit(1, "open")
  /\ UNCHANGED <<options, parse, startv, loopv, aggv, hwv>>

GetFlags ==
  /\ pc = "flags"
  /\ \/ /\ Exit(1, "flags")
        /\ UNCHANGED <<subdev_flags, bytes_per_sample>>
     \/ /\ \E f \in [lsampl : BOOLEAN] :
             /\ subdev_flags' = f
             /\ bytes_per_sample' = IF f.lsampl THEN SizeofLsampl ELSE SizeofSampl
        /\ Goto("converter")
  /\ UNCHANGED <<options, parse, converter, size, cmd, prepRet, tests, real_period,
                 init, armCalls, loopv, aggv, hwv>>

GetConverter ==
  /\ pc = "converter"
  /\ \/ /\ Exit(1, "calibration")
        /\ UNCHANGED converter
     \/ /\ converter' = Calibration(options.channel[0])
        /\ Goto("mmap")
  /\ UNCHANGED <<options, parse, subdev_flags, bytes_per_sample, size, cmd, prepRet,
                 tests, real_period, init, armCalls, loopv, aggv, hwv>>

MapBuffer ==
  /\ pc = "mmap"
  /\ \E s \in BufferSizes :
       /\ size' = s
       /\ \/ /\ Exit(1, "mmap")
             /\ UNCHANGED map
          \/ /\ map' = [o \in 0..(s - 1) |-> 0]
             /\ Goto("prepare")
  /\ UNCHANGED <<options, parse, subdev_flags, bytes_per_sample, converter, cmd,
                 prepRet, tests, real_period, init, armCalls, loopv, aggv,
                 avail, hwlog, lapped, acked>>

\* main line 121: the scan period requested from the library, 1e9 / freq
RequestedPeriod == 1000000000 \div options.freq

\* prepare_cmd_lib: memset, stock command, then the stop condition
PreparedCmd ==
  [scan_begin_arg |-> RequestedPeriod,
   stop_src |-> IF options.n_scan > 0 THEN "TRIG_COUNT" ELSE "TRIG_NONE",
   stop_arg |-> options.n_scan,
   chanlist_len |-> options.n_chan]

PrepareCmd ==
  /\ pc = "prepare"
  /\ \/ /\ cmd' = ZeroCmd            \* comedi_get_cmd_generic_timed failed
        /\ prepRet' = -1
     \/ /\ cmd' = PreparedCmd
        /\ prepRet' = 0
  /\ Goto("test1")                   \* main ignores the return value
  /\ UNCHANGED <<options, parse, subdev_flags, bytes_per_sample, converter, size,
                 tests, real_period, init, armCalls, loopv, aggv, hwv>>

\* comedi_command_test: <<return value, command left in *cmd>>.  -1 is a
\* failed call, 0 an accepted command, 4 an argument the driver adjusted, 1 a
\* trigger source it does not support (a command without trigger sources,
\* which is what the memset leaves, is never accepted)
TestOutcomes(c) ==
  IF c.stop_src = "0" THEN {<<-1, c>>, <<1, c>>}
  ELSE {<<-1, c>>, <<0, c>>}
         \cup {<<4, [c EXCEPT !.scan_begin_arg = p]>> : p \in HwPeriods \ {c.scan_begin_arg}}

\* double_check_cmd, first comedi_command_test
Test1 ==
  /\ pc = "test1"
  /\ \E o \in TestOutcomes(cmd) :
       /\ tests' = Append(tests, o[1])
       /\ cmd' = o[2]
       /\ IF o[1] < 0 THEN Exit(1, "test") ELSE Goto("test2")
  /\ UNCHANGED <<options, parse, subdev_flags, bytes_per_sample, converter, size,
                 prepRet, real_period, init, armCalls, loopv, aggv, hwv>>

\* variant: the period asked for instead of the one negotiated
ReturnedPeriodRequested(c) == RequestedPeriod

\* double_check_cmd line 394: the period handed back to main
ReturnedPeriod(c) == c.scan_begin_arg

\* what double_check_cmd does with the second result
\* variant: any non-negative second result is taken as acceptance
SecondVerdictLenient(ret) ==
  IF ret < 0 THEN "fail" ELSE "accept"

SecondVerdict(ret) ==
  IF ret < 0 THEN "fail" ELSE IF ret # 0 THEN "reject" ELSE "accept"

\* double_check_cmd, second comedi_command_test and the verdict
Test2 ==
  /\ pc = "test2"
  /\ \E o \in TestOutcomes(cmd) :
       /\ tests' = Append(tests, o[1])
       /\ cmd' = o[2]
       /\ IF SecondVerdict(o[1]) = "fail" THEN
            Exit(1, "test") /\ UNCHANGED real_period
          ELSE IF SecondVerdict(o[1]) = "reject" THEN
            Exit(1, "reject") /\ UNCHANGED real_period
          ELSE
            Goto("arm") /\ real_period' = ReturnedPeriod(o[2])
  /\ UNCHANGED <<options, parse, subdev_flags, bytes_per_sample, converter, size,
                 prepRet, init, armCalls, loopv, aggv, hwv>>

\* clock_init() then comedi_command()
Arm ==
  /\ pc = "arm"
  /\ \/ /\ Exit(1, "clock")          \* clock_gettime failed
        /\ UNCHANGED <<init, armCalls>>
     \/ /\ init' \in ClockValues
        /\ armCalls' = armCalls + 1
        /\ \E ok \in BOOLEAN :
             IF ok THEN Goto("poll") ELSE Exit(1, "arm")
  /\ UNCHANGED <<options, parse, subdev_flags, bytes_per_sample, converter, size,
                 cmd, prepRet, tests, real_period, loopv, aggv, hwv>>

\* ------------------------------------------------------------- the hardware
Pow256(k) == IF k = 0 THEN 1 ELSE IF k = 1 THEN 256 ELSE IF k = 2 THEN 65536 ELSE 16777216

Min(a, b) == IF a < b THEN a ELSE b

\* number of samples the hardware produces: stop_arg scans when the armed
\* command stops on a count, no limit otherwise; the model follows it for
\* MaxSamples samples
HwLimit ==
  IF cmd.stop_src = "TRIG_COUNT"
  THEN Min(cmd.stop_arg * cmd.chanlist_len, MaxSamples)
  ELSE MaxSamples

\* the driver stores one more sample, little-endian, at its write position;
\* it does not wait for the reader, so a slow reader is lapped (avail > size)
HwWrite ==
  /\ pc \in {"poll", "sleep", "decode"}
  /\ Len(hwlog) < HwLimit
  /\ \E v \in RawAt(Len(hwlog)) :
       LET pos == (Len(hwlog) * bytes_per_sample) % size IN
         /\ map' = [o \in DOMAIN map |->
                      LET k == (o - pos + size) % size IN
                        IF k < bytes_per_sample THEN (v \div Pow256(k)) % 256 ELSE map[o]]
         /\ hwlog' = Append(hwlog, v)
  /\ avail' = avail + bytes_per_sample
  /\ lapped' = (lapped \/ avail + bytes_per_sample > size)
  /\ UNCHANGED <<pc, exitStatus, cause, options, parse, startv, loopv, aggv, acked>>

\* ---------------------------------------------------------------- the loop
\* variant: front < back sleeps and polls again
PollBranchRetry(f, b) ==
  IF f < b THEN "sleep"
  ELSE IF f = b THEN
    IF options.n_scan > 0 /\ n >= options.n_scan THEN "stop" ELSE "sleep"
  ELSE "decode"

\* variant: front <= back breaks
PollBranchIdleBreaks(f, b) ==
  IF f <= b THEN "break" ELSE "decode"

\* variant: an idle poll is followed by the next poll at once
PollBranchSpin(f, b) ==
  IF f < b THEN "break"
  ELSE IF f = b THEN
    IF options.n_scan > 0 /\ n >= options.n_scan THEN "stop" ELSE "poll"
  ELSE "decode"

\* main lines 139-145: what the loop does with the counters after a poll
PollBranch(f, b) ==
  IF f < b THEN "break"
  ELSE IF f = b THEN
    IF options.n_scan > 0 /\ n >= options.n_scan THEN "stop" ELSE "sleep"
  ELSE "decode"

\* the range of int
IntMax == 2147483647

\* a + b, b >= -1, does not fit an int
Overflows(a, b) == b > 0 /\ a > IntMax - b

\* a + b in an int where the addition is done modulo 2^32: past IntMax the
\* sum is a + b - 2^32
AddInt(a, b) ==
  IF Overflows(a, b)
  THEN ((a - IntMax) - 1) + ((b - IntMax) - 1)
  ELSE a + b

\* main line 137 and the tests that follow it, comedi_get_buffer_contents
\* having returned c.  A sum that does not fit the int front is undefined:
\* the build either wraps it or traps on it (the process is then killed by
\* SIGABRT, status 134)
PollOn(c) ==
  /\ pc = "poll"
  /\ polled' = TRUE
  /\ last' = "poll"
  /\ \/ /\ front' = AddInt(front, c)
        /\ LET br == PollBranch(AddInt(front, c), back) IN
             /\ IF br = "break" THEN Exit(0, "overrun")
                ELSE IF br = "stop" THEN Exit(0, "stop")
                ELSE Goto(br)
             /\ i' = IF br = "decode" THEN back ELSE i
     \/ /\ Overflows(front, c)
        /\ Exit(134, "trap")
        /\ UNCHANGED <<front, i>>
  /\ UNCHANGED <<options, parse, startv, back, n, aggv, hwv>>

\* a poll: the call fails, or reports the bytes not yet marked read
Poll == \E c \in {-1, avail} : PollOn(c)

\* usleep(10000); continue
Sleep ==
  /\ pc = "sleep"
  /\ last' = "usleep"
  /\ Goto("poll")
  /\ UNCHANGED <<options, parse, startv, polled, front, back, n, i, aggv, hwv>>

\* variant: the logical position used as the offset
ReadOffsetNoWrap(p) == p

\* main lines 149-150: physical offset of logical byte position p
ReadOffset(p) == p % size

\* the values *(sampl_t *)(map + off) can yield; a read that runs past the
\* end of the mapping has no defined value
ReadSample(off) ==
  IF off + bytes_per_sample <= size THEN
    {map[off] + (IF bytes_per_sample > 1 THEN map[off + 1] * 256 ELSE 0)
             + (IF bytes_per_sample > 2 THEN map[off + 2] * 65536 + map[off + 3] * 16777216 ELSE 0)}
  ELSE Garbage

\* comedi_to_physical with a linear polynomial
ToPhysical(raw, cv) == cv.c0 + cv.c1 * (raw - cv.origin)

\* printf("%8.6f", sum / (double) d): <<the digits before the point, the six
\* digits after it>>, rounded to nearest
Micro(sum, d) ==
  LET whole == sum \div d
      sixth == (2 * (sum % d) * 1000000 + d) \div (2 * d)
  IN IF sixth = 1000000 THEN <<whole + 1, 0>> ELSE <<whole, sixth>>

\* variant: the counter is seeded on every call
SeedIsamplesAlways(is) == options.integrate

\* print_datum line 418
SeedIsamples(is) == IF is = 0 THEN options.integrate ELSE is

\* variant: the running sum is kept after a row
ResetSumKeep(sum) == sum

\* print_datum line 432: buf[i] = 0
ResetSum(sum) == 0

\* variant: the row carries the time after the scan that completed it
RowTimeAfter ==
  IF ~options.fulltime THEN t + real_period ELSE init + t + real_period

\* print_datum lines 426-427
RowTime == IF ~options.fulltime THEN t ELSE init + t

\* print_datum
PrintDatum(raw) ==
  LET is1 == SeedIsamples(isamples)
      buf1 == [buf EXCEPT ![col] = @ + ToPhysical(raw, converter)]
  IN
    /\ fed' = Append(fed, raw)
    /\ IF col + 1 = options.n_chan THEN
         /\ col' = 0
         /\ isamples' = is1 - 1
         /\ IF is1 - 1 = 0 THEN
              /\ out' = Append(out, [ts |-> RowTime,
                                     vals |-> [c \in 1..options.n_chan |->
                                                 Micro(buf1[c - 1], options.integrate)]])
              /\ buf' = [c \in DOMAIN buf |-> IF c < options.n_chan THEN ResetSum(buf1[c]) ELSE buf1[c]]
            ELSE
              /\ out' = out
              /\ buf' = buf1
         /\ n' = n + 1
         /\ t' = t + real_period
       ELSE
         /\ col' = col + 1
         /\ isamples' = is1
         /\ buf' = buf1
         /\ UNCHANGED <<out, n, t>>

\* variant: the loop stops one sample short
InRangeShort(p, f) == p + bytes_per_sample < f

\* main line 147: the condition of the for loop
InRange(p, f) == p < f

\* one iteration of the for loop at main lines 147-152
Decode ==
  /\ pc = "decode"
  /\ InRange(i, front)
  /\ \E raw \in ReadSample(ReadOffset(i)) : PrintDatum(raw)
  /\ i' = i + bytes_per_sample
  /\ UNCHANGED <<pc, exitStatus, cause, options, parse, startv, polled, last,
                 front, back, hwv>>

\* variant: back is not advanced
AckedBackStale(f, b) == b

\* main line 159
AckedBack(f, b) == f

\* main lines 154-159 once the for loop has ended: comedi_mark_buffer_read
\* succeeds (ok) or fails, then back = front
AckOn(ok) ==
  /\ pc = "decode"
  /\ ~InRange(i, front)
  /\ last' = "mark"
  /\ IF ok THEN
       /\ avail' = avail - (front - back)
       /\ acked' = acked + (front - back)
       /\ back' = AckedBack(front, back)
       /\ Goto("poll")
     ELSE
       /\ Exit(0, "ackfail")
       /\ UNCHANGED <<back, avail, acked>>
  /\ UNCHANGED <<options, parse, startv, polled, front, n, i, aggv, map, hwlog, lapped>>

Ack == \E ok \in BOOLEAN : AckOn(ok)

Next ==
  \/ ParseOptions \/ OpenDevice \/ GetFlags \/ GetConverter \/ MapBuffer
  \/ PrepareCmd \/ Test1 \/ Test2 \/ Arm
  \/ HwWrite \/ Poll \/ Sleep \/ Decode \/ Ack

Spec == Init /\ [][Next]_vars

\* a poll and an acknowledge that succeed
PollOk == PollOn(avail)

AckOk == AckOn(TRUE)

\* a step of the acquisition loop while no library call fails
LoopStep == PollOk \/ Sleep \/ Decode \/ AckOk

\* runs in which every poll and every acknowledge succeeds; the process keeps
\* executing its loop (the loop is sequential code, so the step that is
\* enabled is taken), the hardware is free to deliver or to stay silent
LiveNext ==
  \/ ParseOptions \/ OpenDevice \/ GetFlags \/ GetConverter \/ MapBuffer
  \/ PrepareCmd \/ Test1 \/ Test2 \/ Arm
  \/ HwWrite \/ PollOk \/ Sleep \/ Decode \/ AckOk

LiveSpec == Init /\ [][LiveNext]_vars /\ WF_vars(LoopStep)

\* the first multiple of the buffer size from which one more buffer of bytes
\* no longer fits the int counters
WrapStart(sz) == (IntMax - sz) + 1

\* an unbounded run (n_scan = 0) at the moment its loop has read and
\* acknowledged WrapStart(size) bytes and is about to poll again; the
\* histories, the acknowledged total, the sums and the elapsed time are
\* counted from this moment on
WrapInit ==
  /\ options \in UNION {[n_chan : {nc}, channel : ChannelLists(nc),
                          n_scan : {0}, integrate : 1..MaxIntegrate,
                          fulltime : BOOLEAN, freq : Freqs, h : {FALSE}] :
                         nc \in 1..MaxChan}
  /\ parse = ParseDone
  /\ pc = "poll" /\ exitStatus = -1 /\ cause = "none"
  /\ subdev_flags \in [lsampl : BOOLEAN]
  /\ bytes_per_sample = IF subdev_flags.lsampl THEN SizeofLsampl ELSE SizeofSampl
  /\ converter = Calibration(options.channel[0])
  /\ size \in BufferSizes
  /\ cmd = PreparedCmd
  /\ prepRet = 0 /\ tests = <<0, 0>>
  /\ real_period = ReturnedPeriod(cmd)
  /\ init \in ClockValues
  /\ armCalls = 1
  /\ polled = TRUE /\ last = "mark"
  /\ front = WrapStart(size) /\ back = front /\ i = front
  /\ n = (front \div bytes_per_sample) \div options.n_chan
  /\ col = (front \div bytes_per_sample) % options.n_chan
  /\ isamples = IF col = 0
                THEN (options.integrate - (n % options.integrate)) % options.integrate
                ELSE options.integrate - (n % options.integrate)
  /\ t = 0
  /\ buf = [c \in 0..(MaxChan - 1) |-> 0]
  /\ out = <<>> /\ fed = <<>>
  /\ map = [o \in 0..(size - 1) |-> 0]
  /\ avail = 0 /\ hwlog = <<>> /\ lapped = FALSE /\ acked = 0

\* the loop of such a run while every poll and acknowledge succeeds
WrapNext == HwWrite \/ PollOk \/ Sleep \/ Decode \/ AckOk

WrapSpec == WrapInit /\ [][WrapNext]_vars

\* a poll that reports the bytes the driver holds, or all of them but the
\* last byte of the newest sample
PollBytes == \E c \in {avail, avail - 1} \cap (0..avail) : PollOn(c)

\* runs in which comedi_get_buffer_contents may report any byte count
ByteNext ==
  \/ ParseOptions \/ OpenDevice \/ GetFlags \/ GetConverter \/ MapBuffer
  \/ PrepareCmd \/ Test1 \/ Test2 \/ Arm
  \/ HwWrite \/ PollBytes \/ Sleep \/ Decode \/ Ack

\* the runs of ByteSpec: unbounded, one row per scan, relative time
ByteInit ==
  /\ Init
  /\ options.n_scan = 0 /\ options.integrate = 1 /\ ~options.fulltime
  /\ options.channel[0] = 0

ByteSpec == ByteInit /\ [][ByteNext]_vars

\* parse_options alone, over the command lines of ArgLists
ParseNext == ParseArg \/ ParseOptions

ParseSpec == ParseInit /\ [][ParseNext]_vars

\* ================================================================== claims

InLoop == pc \in {"poll", "sleep", "decode"}

\* C1: with stop count K > 0, when the hardware has delivered exactly K scans
\* and the loop ended through its stop test, exactly floor(K / I) rows were
\* printed, however the samples were split across polls.
C1_RowCount ==
  (/\ pc = "done" /\ cause = "stop"
   /\ options.n_scan > 0
   /\ Len(hwlog) = options.n_scan * options.n_chan)
  => Len(out) = options.n_scan \div options.integrate

C1_Witness ==
  /\ pc = "done" /\ cause = "stop"
  /\ options.n_scan = 2 /\ options.integrate = 2 /\ options.n_chan = 2
  /\ Len(hwlog) = 4
  /\ Len(out) = 1

\* C2: after every acknowledge (a successful comedi_mark_buffer_read followed
\* by back = front) 0 <= front - back <= size.
C2_AfterAck ==
  [][(pc = "decode" /\ pc' = "poll")
       => (0 <= front' - back' /\ front' - back' <= size')]_vars

C2_Witness ==
  /\ pc = "poll" /\ acked > size
  /\ 0 <= front - back /\ front - back <= size

\* C3: a poll that leaves front - back greater than the buffer size ends the
\* loop on that poll as an overrun, before any sample of it is decoded.
C3_OverrunHalts ==
  (front - back > size) => (pc = "done" /\ cause = "overrun")

\* C4: a poll whose query fails, or that leaves front < back, ends the loop on
\* that poll; nothing is decoded, printed or acknowledged by it or after it.
C4_PollFailureFatal ==
  [][/\ (pc = "poll" /\ front' < back')
          => (pc' = "done" /\ UNCHANGED <<back, acked, avail, n, aggv>>)
     /\ (pc = "done" /\ front < back) => UNCHANGED vars]_vars

C4_Witness ==
  /\ pc = "done" /\ front < back
  /\ acked > 0 /\ Len(out) > 0

FatalCauses ==
  {"open", "flags", "mmap", "arm", "reject", "overrun", "calibration", "help"}

\* C5: the exit status is 0 only after the stop count was reached, and every
\* fatal condition, an overrun seen by the poll loop included, ends with 1.
C5_ExitStatus ==
  pc = "done" =>
    /\ exitStatus = 0 => cause = "stop"
    /\ cause \in FatalCauses => exitStatus = 1

\* C6: the command is validated at most twice; it is armed only after a second
\* validation that returned 0; a second validation that returns non-zero ends
\* the process with a non-zero status, unarmed and before any poll; a positive
\* first result alone leads on to the second validation.
C6_Negotiation ==
  /\ Len(tests) <= 2
  /\ armCalls > 0 => (Len(tests) = 2 /\ tests[2] = 0)
  /\ polled => armCalls = 1
  /\ (Len(tests) = 2 /\ tests[2] # 0)
       => (pc = "done" /\ exitStatus > 0 /\ armCalls = 0 /\ ~polled)
  /\ (Len(tests) = 1 /\ tests[1] > 0) => pc = "test2"

C6_Witness ==
  /\ Len(tests) = 2 /\ tests[1] > 0 /\ tests[2] > 0
  /\ pc = "done" /\ exitStatus = 1 /\ armCalls = 0

\* C7: in relative timestamp mode the timestamps of the printed rows never
\* decrease, and consecutive rows differ by exactly integrate times the
\* scan_begin_arg the second validation left in the command.
C7_TimestampStep ==
  ~options.fulltime =>
    \A k \in 1..(Len(out) - 1) :
      /\ out[k].ts <= out[k + 1].ts
      /\ out[k + 1].ts - out[k].ts = options.integrate * cmd.scan_begin_arg

C7_Witness ==
  /\ ~options.fulltime
  /\ options.integrate = 2
  /\ cmd.scan_begin_arg # RequestedPeriod
  /\ Len(out) = 2
  /\ out[2].ts - out[1].ts = 2 * cmd.scan_begin_arg

\* C8: with the identity converter, integration depth 1 and no overrun, the
\* printed rows are exactly the raw samples the hardware wrote, in order,
\* n_chan per row in channel order, none repeated and none skipped, also when
\* the samples wrap past the end of the buffer and arrive over several polls.
C8_RoundTrip ==
  (converter = Identity /\ options.integrate = 1 /\ ~lapped /\ InLoop) =>
    /\ Len(fed) * bytes_per_sample = (IF pc = "decode" THEN i ELSE back)
    /\ Len(out) = Len(fed) \div options.n_chan
    /\ \A k \in 1..Len(out) :
         /\ Len(out[k].vals) = options.n_chan
         /\ \A c \in 1..options.n_chan :
              out[k].vals[c] = <<hwlog[(k - 1) * options.n_chan + c], 0>>

C8_Witness ==
  /\ converter = Identity /\ options.integrate = 1 /\ ~lapped
  /\ options.n_chan = 2 /\ bytes_per_sample = SizeofLsampl
  /\ pc = "poll" /\ back = 2 * size
  /\ hwlog = <<1, 3, 5, 7>>
  /\ Len(out) = 2
  /\ out[2].vals = <<<<5, 0>>, <<7, 0>>>>

RECURSIVE WindowSum(_, _, _)
\* sum of the converted samples of channel c (from 1) over the first j scans
\* of the k-th integration window (from 1)
WindowSum(k, c, j) ==
  IF j = 0 THEN 0
  ELSE WindowSum(k, c, j - 1)
         + ToPhysical(fed[((k - 1) * options.integrate + j - 1) * options.n_chan + c],
                      converter)

\* C9: every printed row carries, for each channel, the sum of the converted
\* samples of that channel over the integrate scans of its window, divided by
\* integrate; right after a row every running sum is zero, and the running
\* sums never hold anything but the scans of the window in progress.
C9_WindowMean ==
  /\ \A k \in 1..Len(out) : \A c \in 1..options.n_chan :
       out[k].vals[c] = Micro(WindowSum(k, c, options.integrate), options.integrate)
  /\ (isamples = 0 /\ col = 0) => \A c \in 0..(options.n_chan - 1) : buf[c] = 0
  /\ (InLoop /\ col = 0 /\ isamples > 0) =>
       \A c \in 1..options.n_chan :
         buf[c - 1] = WindowSum(Len(out) + 1, c, options.integrate - isamples)

C9_Witness ==
  /\ options.integrate = 2 /\ options.n_chan = 1 /\ converter = Identity
  /\ fed = <<1, 3, 5, 7>>
  /\ Len(out) = 2
  /\ out[1].vals = <<<<2, 0>>>> /\ out[2].vals = <<<<6, 0>>>>
  /\ buf[0] = 0

\* C10: a poll that reports zero new bytes, and the sleep after it, leave
\* back, front, the aggregator, the scan counter and the acknowledged bytes as
\* they were, print nothing and end the loop only through the stop test.
C10_IdlePoll ==
  [][/\ (pc = "poll" /\ pc' # "poll" /\ front' = front)
          => /\ UNCHANGED <<back, front, n, aggv, acked, avail>>
             /\ pc' \in {"sleep", "done"}
             /\ pc' = "done" => (cause' = "stop" /\ exitStatus' = 0
                                  /\ options.n_scan > 0 /\ n >= options.n_scan)
     /\ pc = "sleep"
          => (pc' \in {"sleep", "poll"}
              /\ UNCHANGED <<back, front, n, aggv, acked, exitStatus, cause>>)]_vars

C10_Witness ==
  /\ pc = "sleep" /\ front = back /\ acked > 0 /\ Len(out) > 0

RECURSIVE ChannelSum(_, _, _)
\* WindowSum with every sample converted by the polynomial of the channel at
\* its position c of the channel list
ChannelSum(k, c, j) ==
  IF j = 0 THEN 0
  ELSE ChannelSum(k, c, j - 1)
         + ToPhysical(fed[((k - 1) * options.integrate + j - 1) * options.n_chan + c],
                      Calibration(options.channel[c - 1]))

\* C11: every raw sample is converted with the calibration polynomial of the
\* channel at the sample's position in the channel list, so each printed value
\* is the window mean of its own channel's conversions.
C11_PerChannelConverter ==
  \A k \in 1..Len(out) : \A c \in 1..options.n_chan :
    out[k].vals[c] = Micro(ChannelSum(k, c, options.integrate), options.integrate)

\* C12: whatever the command line, parse_options leaves n_chan at most 256 and
\* stores channel entries only at indices 0..255.
C12_ChannelBound ==
  /\ options.n_chan <= NChans
  /\ parse.maxw <= NChans - 1

\* C13: no failed step is passed over: once prepare_cmd_lib has failed the
\* command is not validated, armed or polled, and a failed
\* comedi_mark_buffer_read does not end the process with status 0.
C13_NoErrorSwallowed ==
  /\ prepRet < 0 => (Len(tests) = 0 /\ armCalls = 0 /\ ~polled)
  /\ cause = "ackfail" => exitStatus # 0

\* C15: comedi_mark_buffer_read is called only once every sample of
\* [back, front) has been decoded and fed to print_datum; a successful call
\* acknowledges exactly front - back bytes and advances back by that amount,
\* a failed one leaves back where it was.
C15_AckOrdering ==
  [][(pc = "decode" /\ pc' # "decode")
       => /\ i >= front
          /\ Len(fed) * bytes_per_sample = front
          /\ pc' = "poll" => (/\ acked' - acked = front - back
                              /\ back' - back = front - back
                              /\ avail' = avail - (front - back))
          /\ pc' = "done" => (back' = back /\ acked' = acked /\ avail' = avail)]_vars

C15_Witness ==
  /\ pc = "poll" /\ last = "mark"
  /\ Len(fed) >= 2
  /\ back = front /\ acked = Len(fed) * bytes_per_sample

\* C16: a poll that finds front = back while the stop test is not met is
\* followed by usleep before the next poll; the loop never polls twice in a
\* row: between two polls there is a usleep or a decoded and acknowledged
\* batch.
C16_IdleBackOff ==
  [][/\ (pc = "poll" /\ last' = "poll" /\ front' = back'
           /\ ~(options.n_scan > 0 /\ n >= options.n_scan))
          => pc' = "sleep"
     /\ pc' = "poll" => last' \in {"none", "usleep", "mark"}
     /\ (pc = "sleep" /\ pc' # "sleep") => (pc' = "poll" /\ last' = "usleep")
     /\ last' = "mark" => (last = "mark" \/ Len(fed) * bytes_per_sample >= front)]_vars

C16_Witness ==
  /\ pc = "poll" /\ last = "usleep"
  /\ front = back /\ acked > 0
  /\ options.n_scan > 0 /\ n < options.n_scan

\* C18 as stated: between two calls of print_datum col is in 0..n_chan-1,
\* isamples is in 0..I-1, and n = floor(samples fed / n_chan).
C18_AsStated ==
  /\ col \in 0..(options.n_chan - 1)
  /\ isamples \in 0..(options.integrate - 1)
  /\ n = Len(fed) \div options.n_chan

\* C18: between two calls of print_datum col is the number of samples fed
\* modulo n_chan, n = floor(samples fed / n_chan), and isamples is in 0..I:
\* it is the number of scans still missing in the integration window, 0 when
\* a window has just been completed or nothing was fed, and I while the first
\* scan of a window is part-way fed.
C18_AggregationState ==
  /\ col \in 0..(options.n_chan - 1)
  /\ col = Len(fed) % options.n_chan
  /\ n = Len(fed) \div options.n_chan
  /\ isamples \in 0..options.integrate
  /\ isamples = IF col = 0
                THEN (options.integrate - (n % options.integrate)) % options.integrate
                ELSE options.integrate - (n % options.integrate)

C18_Witness ==
  /\ options.n_chan = 2
  /\ Len(out) = 1 /\ col = 1
  /\ isamples = options.integrate

\* C20: in relative mode the k-th printed row carries (k * I - 1) times the
\* negotiated period, the start of the last scan of its window; the elapsed
\* time t is n periods whether or not rows were printed, and the first row
\* carries 0 only when I = 1.
C20_RowTimestamp ==
  /\ t = n * real_period
  /\ ~options.fulltime =>
       /\ \A k \in 1..Len(out) :
            out[k].ts = (k * options.integrate - 1) * cmd.scan_begin_arg
       /\ (Len(out) > 0 /\ out[1].ts = 0) => options.integrate = 1

C20_Witness ==
  /\ ~options.fulltime /\ options.integrate = 2
  /\ Len(out) = 2 /\ n = 4
  /\ out[1].ts = cmd.scan_begin_arg /\ out[2].ts = 3 * cmd.scan_begin_arg
  /\ cmd.scan_begin_arg > 0

\* C14, stop count K > 0: while every poll and acknowledge succeeds, a loop
\* whose hardware has delivered exactly K scans (and so delivers no more)
\* eventually ends through the stop test with status 0.
C14_StopCountTerminates ==
  (InLoop /\ options.n_scan > 0
     /\ Len(hwlog) = options.n_scan * options.n_chan
     /\ cmd.stop_src = "TRIG_COUNT" /\ cmd.stop_arg = options.n_scan)
    ~> (pc = "done" /\ cause = "stop" /\ exitStatus = 0)

\* C14, stop count 0: while every poll and acknowledge succeeds the loop
\* never ends.
C14_UnboundedNeverEnds ==
  (options.n_scan = 0 /\ polled) => InLoop

\* C17: across successful polls and acknowledges front and back never
\* decrease, also in an unbounded run whose byte count passes the range of
\* int, and the loop is not ended by the counters.
C17_Monotonic ==
  [][/\ front' >= front
     /\ back' >= back
     /\ InLoop => InLoop']_vars

\* C19: every sample the for loop decodes lies inside [back, front) of its
\* poll and inside the mapping [0, size), whatever byte count the poll
\* reported.
C19_InsideRange ==
  [][(pc = "decode" /\ i' # i)
       => /\ back <= i
          /\ i + bytes_per_sample <= front
          /\ (i % size) + bytes_per_sample <= size]_vars

====
